---- MODULE Spec2Model ----
(***************************************************************************)
(* EGM96 geoid undulation (src/EGM96.hpp): the class EGM96, its            *)
(* constructor and the query egm96ComputeAltitudeOffset with the private   *)
(* routines it calls.                                                      *)
(*                                                                         *)
(* What is modelled exactly: every loop, every loop bound, every array     *)
(* index expression, every array cell that is written or read, and which   *)
(* storage each array lives in (members drts/dirt, automatic arrays of the *)
(* two routines).                                                          *)
(*                                                                         *)
(* What is abstracted: the 64-bit floating point numbers.  A cell holds a  *)
(* symbolic term that names the quantity the algorithm defines for it      *)
(* (sqrt(n), the Legendre value of degree n and order m, sin(m*lon), a     *)
(* partial sum, ...).  An arithmetic statement yields its term when every  *)
(* operand holds the term the statement needs and Indet otherwise; Indet   *)
(* is also what an unwritten cell holds.  A query whose return expression  *)
(* is Indet returns an arbitrary number.                                   *)
(*                                                                         *)
(* The source fixes maxDeg at 360 (line 56).  The model runs the same code *)
(* at a small degree; every number the source derives from 360 is derived  *)
(* here from maxDeg by the same expression.                                *)
(***************************************************************************)
EXTENDS Integers, FiniteSets, Sequences, TLC

VARIABLES
  constructed,  \* the EGM96 object exists (its constructor has returned)
  drts,         \* member double drts[1301]: the cells written so far
  dirt,         \* member double dirt[1301]: the cells written so far
  fr,           \* per thread: scalars of the running query (arguments, loop counters, sums)
  buf,          \* per storage slot: the automatic arrays p, sinml, cosml, rleg, rlnn
  hist,         \* observer: the first result returned for each argument pair
  pairs,        \* index walker: two (n, m) pairs
  ixs           \* index walker: the indices computed for the two pairs

vars == <<constructed, drts, dirt, fr, buf, hist, pairs, ixs>>

---------------------------------------------------------------------------
(* Bounds and inputs *)

\* Maximum degree and order (360 in the source).
maxDeg == 5

\* Number of queries a thread makes in the sequential specification.
MaxCalls == 2

\* Latitudes and longitudes (degrees) the queries are called with.
Lats == {-90, 0, 90}
Lons == {0}

Threads == {1, 2}

---------------------------------------------------------------------------
(* Sizes derived from maxDeg as the source derives them *)

\* u32 nmax2p = (2 * maxDeg) + 1 (721 in the source)
nmax2pShort == 2 * maxDeg
nmax2p == (2 * maxDeg) + 1

\* u32 nmax1 = maxDeg + 1 (361 in the source)
nmax1 == maxDeg + 1

\* coeffsCount: the size of p and of the coefficient table, "(361 * 181)" + 1
\* = 65342 in the source, that is (maxDeg+1)*(maxDeg+2)/2 + 1.
coeffsCount == (((maxDeg + 1) * (maxDeg + 2)) \div 2) + 1

---------------------------------------------------------------------------
(* Symbolic values *)

V(kind, in, n, m) == [k |-> kind, in |-> in, n |-> n, m |-> m]

NoIn == <<0, 0>>

\* An indeterminate value: an unwritten cell, or a result computed from one.
Indet == V("indet", NoIn, 0, 0)

Term(ok, v) == IF ok THEN v ELSE Indet

Sqrt(n)    == V("sqrt", NoIn, n, 0)
InvSqrt(n) == V("isqrt", NoIn, n, 0)
One        == V("one", NoIn, 0, 0)

\* The normalized Legendre value of degree n and order m at the colatitude of
\* query `in`; degree 0, order 0 is the constant 1.
Pnm(in, n, m) == IF n = 0 /\ m = 0 THEN One ELSE V("P", in, n, m)

SinM(in, m) == V("sin", in, 0, m)
CosM(in, m) == V("cos", in, 0, m)

\* Arrays: the function of the cells written so far.
Rd(arr, i) == IF i \in DOMAIN arr THEN arr[i] ELSE Indet

Wr(arr, i, v) == (i :> v) @@ arr

Colat(in)  == V("colat", in, 0, 0)
Grav(in)   == V("gr", in, 0, 0)
Radius(in) == V("re", in, 0, 0)
Arn(in, n) == V("arn", in, n, 0)
Sum(in, n, m)  == V("sum", in, n, m)
SumC(in, n, m) == V("sumc", in, n, m)
A(in, n)   == V("a", in, n, 0)
AC(in, n)  == V("ac", in, n, 0)
ACref(in)  == V("acref", in, 0, 0)
Und(in)    == V("und", in, 0, 0)
Coef(k)    == V("coef", NoIn, k, 0)

\* What a query can return when its return expression is indeterminate.
Junk == {V("junk", NoIn, 0, 0), V("junk", NoIn, 1, 0)}

Outcomes(v) == IF v = Indet THEN Junk ELSE {v}

---------------------------------------------------------------------------
(* The external coefficient table egm96Data[coeffsCount][4] (egm96Data.hpp) *)

egm96Data(k) == Term(k \in 0..(coeffsCount - 1), Coef(k))

---------------------------------------------------------------------------
(* Frames *)

\* What one step did: table cells read, local cells read (wr: the cell had been
\* written in this query, for rleg by the Legendre call of the current order),
\* the scatter write, the synthesizer's read, the skip guard, the recurrence.
G0 == [trd |-> {}, lrd |-> {}, wr |-> <<>>, prd |-> <<>>, skip |-> FALSE, rec |-> <<>>]

TR(tab, ix) == [tab |-> tab, ix |-> ix]

LR(name, arr, ix) == [arr |-> name, ix |-> ix, wr |-> ix \in DOMAIN arr]

LRleg(b, m, ix) ==
  [arr |-> "rleg", ix |-> ix, wr |-> ix \in DOMAIN b.rleg /\ b.rlegBy[ix] = m]

Frame0 ==
  [pc |-> "idle", calls |-> 0, conc |-> FALSE, lat |-> 0, lon |-> 0,
   rlat |-> Indet, gr |-> Indet, re |-> Indet,
   j |-> 0, i |-> 0, m |-> 0, n1 |-> 0, tm |-> 0,
   k |-> 0, n |-> 0, sm |-> 0,
   arn |-> Indet, ac |-> Indet, a |-> Indet, sum |-> Indet, sumc |-> Indet,
   val |-> Indet, result |-> Indet, skips |-> 0, g |-> G0]

\* Automatic arrays hold indeterminate values when their frame is entered.
\* pBy and rlegBy remember who wrote a cell of p (the scatter loop's i and m)
\* and of rleg (the order of the Legendre call).
Buf0 ==
  [p |-> <<>>, pBy |-> <<>>, sinml |-> <<>>, cosml |-> <<>>,
   rleg |-> <<>>, rlegBy |-> <<>>, rlnn |-> <<>>]

In(f) == <<f.lat, f.lon>>

\* Each invocation has its own automatic arrays (lines 195 and 115).
BufStatic(t) == 1
BufOf(t) == t

---------------------------------------------------------------------------
(* EGM96::EGM96 *)

RECURSIVE CtorLoop(_, _)
CtorLoop(n, t) ==
  IF n <= nmax2p
  THEN LET d == Wr(t.drts, n, Sqrt(n))
       IN CtorLoop(n + 1,
                   [drts |-> d,
                    dirt |-> Wr(t.dirt, n, Term(Rd(d, n) = Sqrt(n), InvSqrt(n)))])
  ELSE t

Construct ==
  /\ ~constructed
  /\ LET t == CtorLoop(1, [drts |-> drts, dirt |-> dirt])
     IN /\ drts' = t.drts
        /\ dirt' = t.dirt
  /\ constructed' = TRUE
  /\ UNCHANGED <<fr, buf, hist, pairs, ixs>>

---------------------------------------------------------------------------
(* computeNormalizedLegendreFunctions(m, theta, rleg)                      *)
(* The u32 index expressions are computed over the integers: a negative    *)
(* value is one that wraps in u32.                                         *)

m1(m) == m + 1
m2(m) == m + 2
m3Wide(m) == m + 4
m3Early(m) == m + 2
m3(m) == m + 3

WrLeg(b, m, i, v) == [b EXCEPT !.rleg = Wr(@, i, v), !.rlegBy = Wr(@, i, m)]

\* (!m && n < 2) || (m == 1 && n < 3)
SkipGuard(m, n) == (m = 0 /\ n < 2) \/ (m = 1 /\ n < 3)

\* The table cells line 154 reads for degree n and order m.
RecReads(n, m) ==
  {TR("drts", (2 * n) + 1), TR("dirt", n + m), TR("dirt", n - m),
   TR("drts", (2 * n) - 1), TR("drts", n + m - 1), TR("drts", n - m - 1),
   TR("dirt", (2 * n) - 3)}

TabOK(reads, dr, di) ==
  \A r \in reads :
    IF r.tab = "drts" THEN Rd(dr, r.ix) = Sqrt(r.ix) ELSE Rd(di, r.ix) = InvSqrt(r.ix)

\* Lines 115-127 and the initialisation of the loop of line 128.
LegEntryStep(f, b, dr, di) ==
  LET in == In(f)
      th == f.rlat = Colat(in)
      r1 == Wr(<<>>, 1, One)
      r2 == Wr(r1, 2, Term(th /\ TabOK({TR("drts", 3)}, dr, di), Pnm(in, 1, 1)))
  IN [f |-> [f EXCEPT !.pc = "leg_seed", !.n1 = 3,
                      !.g = [G0 EXCEPT !.trd = {TR("drts", 3)}]],
      b |-> [b EXCEPT !.rlnn = r2]]

\* Lines 128-132: one test of the loop condition and, when it holds, one body.
LegSeedStep(f, b, dr, di) ==
  LET in == In(f)
      th == f.rlat = Colat(in)
      n  == f.n1 - 1
      n2 == 2 * n
      rd == {TR("drts", n2 + 1), TR("dirt", n2)}
      v  == Term(th /\ TabOK(rd, dr, di) /\ Rd(b.rlnn, n) = Pnm(in, n - 1, n - 1),
                 Pnm(in, n, n))
  IN IF f.n1 <= m1(f.m)
     THEN [f |-> [f EXCEPT !.n1 = @ + 1,
                           !.g = [G0 EXCEPT !.trd = rd,
                                            !.lrd = {LR("rlnn", b.rlnn, n)}]],
           b |-> [b EXCEPT !.rlnn = Wr(@, f.n1, v)]]
     ELSE [f |-> [f EXCEPT !.pc = "leg_switch", !.g = G0], b |-> b]

\* Lines 134-144: the switch and rleg[m1] = rlnn[m1].
LegSwitchStep(f, b, dr, di) ==
  LET in == In(f)
      th == f.rlat = Colat(in)
      m  == f.m
      c1a == WrLeg(b, m, 2, Rd(b.rlnn, 2))
      c1  == WrLeg(c1a, m, 3,
                   Term(th /\ TabOK({TR("drts", 5)}, dr, di)
                           /\ Rd(c1a.rleg, 2) = Pnm(in, 1, 1),
                        Pnm(in, 2, 1)))
      c0a == WrLeg(b, m, 1, One)
      c0  == WrLeg(c0a, m, 2,
                   Term(th /\ TabOK({TR("drts", 3)}, dr, di), Pnm(in, 1, 0)))
      bs  == IF m = 1 THEN c1 ELSE IF m = 0 THEN c0 ELSE b
      trd == IF m = 1 THEN {TR("drts", 5)} ELSE IF m = 0 THEN {TR("drts", 3)} ELSE {}
      lrd == (IF m = 1 THEN {LR("rlnn", b.rlnn, 2), LRleg(c1a, m, 2)} ELSE {})
             \cup {LR("rlnn", b.rlnn, m1(m))}
  IN [f |-> [f EXCEPT !.pc = "leg_m2",
                      !.g = [G0 EXCEPT !.trd = trd, !.lrd = lrd]],
      b |-> WrLeg(bs, m, m1(m), Rd(b.rlnn, m1(m)))]

\* The loop of line 207 starts at i = j.
ScatterDiag(j) == j + 1
ScatterLow(j) == j - 1
ScatterFirst(j) == j

\* Return to the caller (line 206), which initialises the loop of line 207.
LegReturn(f, g) == [f EXCEPT !.pc = "scatter", !.i = ScatterFirst(f.j), !.g = g]

\* Lines 146-149: rleg[m2], and the initialisation of the loop of line 149.
LegM2Step(f, b, dr, di) ==
  LET in == In(f)
      th == f.rlat = Colat(in)
      m  == f.m
      rd == {TR("drts", (m1(m) * 2) + 1)}
      v  == Term(th /\ TabOK(rd, dr, di) /\ Rd(b.rleg, m1(m)) = Pnm(in, m, m),
                 Pnm(in, m + 1, m))
      g  == [G0 EXCEPT !.trd = rd, !.lrd = {LRleg(b, m, m1(m))}]
  IN IF m2(m) <= nmax1
     THEN [f |-> IF m3(m) <= nmax1
                 THEN [f EXCEPT !.pc = "leg_rec", !.n1 = m3(m), !.g = g]
                 ELSE LegReturn(f, g),
           b |-> WrLeg(b, m, m2(m), v)]
     ELSE [f |-> LegReturn(f, G0), b |-> b]

\* Lines 149-155: one test of the loop condition and, when it holds, one body.
LegRecStep(f, b, dr, di) ==
  LET in == In(f)
      th == f.rlat = Colat(in)
      m  == f.m
      n  == f.n1 - 1
      rd == RecReads(n, m)
      v  == Term(th /\ TabOK(rd, dr, di)
                    /\ Rd(b.rleg, f.n1 - 1) = Pnm(in, n - 1, m)
                    /\ Rd(b.rleg, f.n1 - 2) = Pnm(in, n - 2, m),
                 Pnm(in, n, m))
  IN IF f.n1 <= nmax1
     THEN IF SkipGuard(m, n)
          THEN [f |-> [f EXCEPT !.n1 = @ + 1, !.skips = @ + 1,
                                !.g = [G0 EXCEPT !.skip = TRUE]],
                b |-> b]
          ELSE [f |-> [f EXCEPT !.n1 = @ + 1,
                                !.g = [G0 EXCEPT !.trd = rd, !.rec = <<n>>,
                                                 !.lrd = {LRleg(b, m, f.n1 - 1),
                                                          LRleg(b, m, f.n1 - 2)}]],
                b |-> WrLeg(b, m, f.n1, v)]
     ELSE [f |-> LegReturn(f, G0), b |-> b]

---------------------------------------------------------------------------
(* calculateGeoidUndulationAtCoordinates *)

\* (((i - 1) * i) / 2) + m + 1, line 208
idxHalfFirst(n, m) == (((n - 1) \div 2) * n) + m + 1
idx(n, m) == (((n - 1) * n) \div 2) + m + 1

\* Lines 201-204: computeGeocentricMetrics (lines 171-186, no branch, no
\* test of its arguments), rlat = pi/2 - rlat, and j = 1.
MetricsStep(f, b, dr, di) ==
  LET in == In(f)
  IN [f |-> [f EXCEPT !.pc = "forj", !.rlat = Colat(in), !.gr = Grav(in),
                      !.re = Radius(in), !.j = 1, !.g = G0],
      b |-> b]

\* Lines 204-206: the test of the outer loop, m = j - 1, and the call.
ForJStep(f, b, dr, di) ==
  IF f.j <= nmax1
  THEN [f |-> [f EXCEPT !.pc = "leg_entry", !.m = f.j - 1, !.g = G0], b |-> b]
  ELSE [f |-> [f EXCEPT !.pc = "trig", !.g = G0], b |-> b]

\* Lines 207-209: one test of the inner loop and, when it holds, one write.
ScatterStep(f, b, dr, di) ==
  IF f.i <= nmax1
  THEN [f |-> [f EXCEPT !.i = @ + 1,
                        !.g = [G0 EXCEPT !.lrd = {LRleg(b, f.m, f.i)},
                                         !.wr = <<[n |-> f.i, m |-> f.m,
                                                   ix |-> idx(f.i, f.m)]>>]],
        b |-> [b EXCEPT !.p = Wr(@, idx(f.i, f.m), Rd(b.rleg, f.i)),
                        !.pBy = Wr(@, idx(f.i, f.m), <<f.i, f.m>>)]]
  ELSE [f |-> [f EXCEPT !.pc = "forj", !.j = @ + 1, !.g = G0], b |-> b]

---------------------------------------------------------------------------
(* computeTrigonometricSeriesForLongitude *)

\* The loop of line 99 starts at m = 3.
TrigFirst == 3

\* Lines 91-99.
TrigStep(f, b, dr, di) ==
  LET in == In(f)
      s1 == Wr(b.sinml, 1, SinM(in, 1))
      c1 == Wr(b.cosml, 1, CosM(in, 1))
  IN [f |-> [f EXCEPT !.pc = "trig_loop", !.tm = TrigFirst, !.g = G0],
      b |-> [b EXCEPT !.sinml = Wr(s1, 2, SinM(in, 2)),
                      !.cosml = Wr(c1, 2, CosM(in, 2))]]

\* Lines 99-102: one test of the loop condition and, when it holds, one body.
TrigLoopStep(f, b, dr, di) ==
  LET in == In(f)
      m  == f.tm
      s  == Term(Rd(b.sinml, m - 1) = SinM(in, m - 1)
                   /\ Rd(b.sinml, m - 2) = SinM(in, m - 2), SinM(in, m))
      c  == Term(Rd(b.cosml, m - 1) = CosM(in, m - 1)
                   /\ Rd(b.cosml, m - 2) = CosM(in, m - 2), CosM(in, m))
  IN IF m <= maxDeg
     THEN [f |-> [f EXCEPT !.tm = @ + 1,
                           !.g = [G0 EXCEPT !.lrd = {LR("sinml", b.sinml, m - 1),
                                                     LR("sinml", b.sinml, m - 2),
                                                     LR("cosml", b.cosml, m - 1),
                                                     LR("cosml", b.cosml, m - 2)}]],
           b |-> [b EXCEPT !.sinml = Wr(@, m, s), !.cosml = Wr(@, m, c)]]
     ELSE [f |-> [f EXCEPT !.pc = "syn_init", !.g = G0], b |-> b]

---------------------------------------------------------------------------
(* calculateGravitationalUndulation *)

\* u32 k = 3, line 66
SynFirstKLate == 3 + 1
SynFirstK == 3

\* Lines 61-67.
SynInitStep(f, b, dr, di) ==
  LET in == In(f)
  IN [f |-> [f EXCEPT !.pc = "syn_n", !.k = SynFirstK, !.n = 2,
                      !.arn = Term(f.re = Radius(in), Arn(in, 1)),
                      !.ac = AC(in, 1), !.a = A(in, 1), !.g = G0],
      b |-> b]

\* Lines 67-73: the test of the degree loop, the order-0 term, m = 1.
SynNStep(f, b, dr, di) ==
  LET in == In(f)
      n  == f.n
      k  == f.k + 1
      ok == Rd(b.p, k) = Pnm(in, n, 0) /\ egm96Data(k) = Coef(k)
  IN IF n <= maxDeg
     THEN [f |-> [f EXCEPT !.pc = "syn_m", !.k = k, !.sm = 1,
                           !.arn = Term(f.arn = Arn(in, n - 1) /\ f.re = Radius(in),
                                        Arn(in, n)),
                           !.sum = Term(ok, Sum(in, n, 0)),
                           !.sumc = Term(ok, SumC(in, n, 0)),
                           !.g = [G0 EXCEPT !.lrd = {LR("p", b.p, k)},
                                            !.prd = <<[k |-> k, n |-> n, m |-> 0,
                                                       prev |-> f.k]>>]],
           b |-> b]
     ELSE [f |-> [f EXCEPT !.pc = "syn_tail", !.g = G0], b |-> b]

\* Lines 73-81: one test of the order loop and one body, or the two sums.
SynMStep(f, b, dr, di) ==
  LET in == In(f)
      n  == f.n
      m  == f.sm
      k  == f.k + 1
      ok == /\ Rd(b.p, k) = Pnm(in, n, m)
            /\ egm96Data(k) = Coef(k)
            /\ Rd(b.cosml, m) = CosM(in, m)
            /\ Rd(b.sinml, m) = SinM(in, m)
  IN IF m <= n
     THEN [f |-> [f EXCEPT !.k = k, !.sm = @ + 1,
                           !.sum = Term(ok /\ f.sum = Sum(in, n, m - 1), Sum(in, n, m)),
                           !.sumc = Term(ok /\ f.sumc = SumC(in, n, m - 1),
                                         SumC(in, n, m)),
                           !.g = [G0 EXCEPT !.lrd = {LR("p", b.p, k),
                                                     LR("cosml", b.cosml, m),
                                                     LR("sinml", b.sinml, m)},
                                            !.prd = <<[k |-> k, n |-> n, m |-> m,
                                                       prev |-> f.k]>>]],
           b |-> b]
     ELSE [f |-> [f EXCEPT !.pc = "syn_n", !.n = @ + 1,
                           !.ac = Term(f.ac = AC(in, n - 1) /\ f.sumc = SumC(in, n, n),
                                       AC(in, n)),
                           !.a = Term(f.a = A(in, n - 1) /\ f.sum = Sum(in, n, n)
                                        /\ f.arn = Arn(in, n),
                                      A(in, n)),
                           !.g = G0],
           b |-> b]

\* Lines 83-87: the degree 0/1 reference terms and the return expression.
SynTailStep(f, b, dr, di) ==
  LET in == In(f)
      ac == Term(/\ f.ac = AC(in, maxDeg)
                 /\ egm96Data(1) = Coef(1) /\ egm96Data(2) = Coef(2)
                 /\ egm96Data(3) = Coef(3)
                 /\ Rd(b.p, 2) = Pnm(in, 1, 0) /\ Rd(b.p, 3) = Pnm(in, 1, 1)
                 /\ Rd(b.cosml, 1) = CosM(in, 1) /\ Rd(b.sinml, 1) = SinM(in, 1),
                 ACref(in))
      v  == Term(/\ ac = ACref(in) /\ f.a = A(in, maxDeg)
                 /\ f.gr = Grav(in) /\ f.re = Radius(in),
                 Und(in))
  IN [f |-> [f EXCEPT !.pc = "done", !.ac = ac, !.val = v,
                      !.g = [G0 EXCEPT !.lrd = {LR("p", b.p, 2), LR("p", b.p, 3),
                                                LR("cosml", b.cosml, 1),
                                                LR("sinml", b.sinml, 1)}]],
      b |-> b]

---------------------------------------------------------------------------
(* Actions *)

Running(f) == f.pc \notin {"idle", "done"}

\* A step of thread t's query: its scalars and its own automatic arrays change,
\* nothing else does.
Do(t, r) ==
  /\ fr' = [fr EXCEPT ![t] = r.f]
  /\ buf' = [buf EXCEPT ![BufOf(t)] = r.b]
  /\ UNCHANGED <<constructed, drts, dirt, hist, pairs, ixs>>

\* egm96ComputeAltitudeOffset(lat, lon), lines 49-52, up to the entry of
\* calculateGeoidUndulationAtCoordinates (line 195: p, sinml, cosml, rleg are
\* fresh automatic arrays).  The arguments stay named by their degrees.
Call(t, limit) ==
  /\ constructed
  /\ ~Running(fr[t])
  /\ fr[t].calls < limit
  /\ \E la \in Lats, lo \in Lons :
       fr' = [fr EXCEPT ![t] =
                [Frame0 EXCEPT !.pc = "metrics", !.calls = fr[t].calls + 1,
                               !.lat = la, !.lon = lo,
                               !.conc = \E u \in Threads \ {t} : Running(fr[u])]]
  /\ buf' = [buf EXCEPT ![BufOf(t)] = Buf0]
  /\ UNCHANGED <<constructed, drts, dirt, hist, pairs, ixs>>

Metrics(t) ==
  /\ fr[t].pc = "metrics"
  /\ Do(t, MetricsStep(fr[t], buf[BufOf(t)], drts, dirt))

ForJ(t) ==
  /\ fr[t].pc = "forj"
  /\ Do(t, ForJStep(fr[t], buf[BufOf(t)], drts, dirt))

LegEntry(t) ==
  /\ fr[t].pc = "leg_entry"
  /\ Do(t, LegEntryStep(fr[t], buf[BufOf(t)], drts, dirt))

\* A seeding loop that scales the reciprocal table in place.
LegSeedScalesTable(t) ==
  /\ fr[t].pc = "leg_seed"
  /\ LET r == LegSeedStep(fr[t], buf[BufOf(t)], drts, dirt)
     IN /\ fr' = [fr EXCEPT ![t] = r.f]
        /\ buf' = [buf EXCEPT ![BufOf(t)] = r.b]
        /\ dirt' = IF fr[t].n1 <= m1(fr[t].m)
                   THEN Wr(dirt, 2 * (fr[t].n1 - 1), Indet)
                   ELSE dirt
  /\ UNCHANGED <<constructed, drts, hist, pairs, ixs>>

LegSeed(t) ==
  /\ fr[t].pc = "leg_seed"
  /\ Do(t, LegSeedStep(fr[t], buf[BufOf(t)], drts, dirt))

LegSwitch(t) ==
  /\ fr[t].pc = "leg_switch"
  /\ Do(t, LegSwitchStep(fr[t], buf[BufOf(t)], drts, dirt))

LegM2(t) ==
  /\ fr[t].pc = "leg_m2"
  /\ Do(t, LegM2Step(fr[t], buf[BufOf(t)], drts, dirt))

LegRec(t) ==
  /\ fr[t].pc = "leg_rec"
  /\ Do(t, LegRecStep(fr[t], buf[BufOf(t)], drts, dirt))

Scatter(t) ==
  /\ fr[t].pc = "scatter"
  /\ Do(t, ScatterStep(fr[t], buf[BufOf(t)], drts, dirt))

Trig(t) ==
  /\ fr[t].pc = "trig"
  /\ Do(t, TrigStep(fr[t], buf[BufOf(t)], drts, dirt))

TrigLoop(t) ==
  /\ fr[t].pc = "trig_loop"
  /\ Do(t, TrigLoopStep(fr[t], buf[BufOf(t)], drts, dirt))

SynInit(t) ==
  /\ fr[t].pc = "syn_init"
  /\ Do(t, SynInitStep(fr[t], buf[BufOf(t)], drts, dirt))

SynN(t) ==
  /\ fr[t].pc = "syn_n"
  /\ Do(t, SynNStep(fr[t], buf[BufOf(t)], drts, dirt))

SynM(t) ==
  /\ fr[t].pc = "syn_m"
  /\ Do(t, SynMStep(fr[t], buf[BufOf(t)], drts, dirt))

\* The return of line 87, through lines 212 and 51, to the caller, who sees a
\* double: the value of the return expression, or any number when that
\* expression is indeterminate.
SynTail(t) ==
  /\ fr[t].pc = "syn_tail"
  /\ LET r == SynTailStep(fr[t], buf[BufOf(t)], drts, dirt)
     IN \E x \in Outcomes(r.f.val) :
          /\ fr' = [fr EXCEPT ![t] = [r.f EXCEPT !.result = x]]
          /\ hist' = IF In(r.f) \in DOMAIN hist THEN hist ELSE Wr(hist, In(r.f), x)
  /\ UNCHANGED <<constructed, drts, dirt, buf, pairs, ixs>>

Init ==
  /\ constructed = FALSE
  /\ drts = <<>>
  /\ dirt = <<>>
  /\ fr = [t \in Threads |-> Frame0]
  /\ buf = [t \in Threads |-> Buf0]
  /\ hist = <<>>
  /\ pairs = <<<<1, 1>>, <<1, 1>>>>
  /\ ixs = <<0, 0>>

\* One instance, one caller, MaxCalls queries one after the other.
Next ==
  \/ Construct
  \/ Call(1, MaxCalls)
  \/ Metrics(1) \/ ForJ(1)
  \/ LegEntry(1) \/ LegSeed(1) \/ LegSwitch(1) \/ LegM2(1) \/ LegRec(1)
  \/ Scatter(1)
  \/ Trig(1) \/ TrigLoop(1)
  \/ SynInit(1) \/ SynN(1) \/ SynM(1) \/ SynTail(1)

Spec == Init /\ [][Next]_vars

\* One instance, every thread makes one query, their steps interleave.
NextConc ==
  \/ Construct
  \/ \E t \in Threads :
       \/ Call(t, 1)
       \/ Metrics(t) \/ ForJ(t)
       \/ LegEntry(t) \/ LegSeed(t) \/ LegSwitch(t) \/ LegM2(t) \/ LegRec(t)
       \/ Scatter(t)
       \/ Trig(t) \/ TrigLoop(t)
       \/ SynInit(t) \/ SynN(t) \/ SynM(t) \/ SynTail(t)

SpecConc == Init /\ [][NextConc]_vars

---------------------------------------------------------------------------
(* The index formula on its own: two pairs are drawn, the formula is applied *)

IdxPairs == {q \in (1..maxDeg) \X (1..maxDeg) : q[2] <= q[1]}

InitIdx ==
  /\ constructed = FALSE
  /\ drts = <<>>
  /\ dirt = <<>>
  /\ fr = [t \in Threads |-> Frame0]
  /\ buf = [t \in Threads |-> Buf0]
  /\ hist = <<>>
  /\ pairs \in IdxPairs \X IdxPairs
  /\ ixs = <<0, 0>>

ApplyIdx ==
  /\ ixs = <<0, 0>>
  /\ ixs' = <<idx(pairs[1][1], pairs[1][2]), idx(pairs[2][1], pairs[2][2])>>
  /\ UNCHANGED <<constructed, drts, dirt, fr, buf, hist, pairs>>

NextIdx == ApplyIdx

SpecIdx == InitIdx /\ [][NextIdx]_vars

---------------------------------------------------------------------------
(* A query run alone on a freshly constructed instance *)

Step(f, b, dr, di) ==
  CASE f.pc = "metrics"    -> MetricsStep(f, b, dr, di)
    [] f.pc = "forj"       -> ForJStep(f, b, dr, di)
    [] f.pc = "leg_entry"  -> LegEntryStep(f, b, dr, di)
    [] f.pc = "leg_seed"   -> LegSeedStep(f, b, dr, di)
    [] f.pc = "leg_switch" -> LegSwitchStep(f, b, dr, di)
    [] f.pc = "leg_m2"     -> LegM2Step(f, b, dr, di)
    [] f.pc = "leg_rec"    -> LegRecStep(f, b, dr, di)
    [] f.pc = "scatter"    -> ScatterStep(f, b, dr, di)
    [] f.pc = "trig"       -> TrigStep(f, b, dr, di)
    [] f.pc = "trig_loop"  -> TrigLoopStep(f, b, dr, di)
    [] f.pc = "syn_init"   -> SynInitStep(f, b, dr, di)
    [] f.pc = "syn_n"      -> SynNStep(f, b, dr, di)
    [] f.pc = "syn_m"      -> SynMStep(f, b, dr, di)
    [] f.pc = "syn_tail"   -> SynTailStep(f, b, dr, di)

RECURSIVE Run(_, _, _, _)
Run(f, b, dr, di) ==
  IF f.pc = "done"
  THEN f
  ELSE LET r == Step(f, b, dr, di) IN Run(r.f, r.b, dr, di)

Alone(in) ==
  LET t == CtorLoop(1, [drts |-> <<>>, dirt |-> <<>>])
  IN Run([Frame0 EXCEPT !.pc = "metrics", !.lat = in[1], !.lon = in[2]],
         Buf0, t.drts, t.dirt).val

---------------------------------------------------------------------------
(* Properties *)

\* C1: for 1 <= m <= n <= maxDeg the indices idx(n, m) of two different pairs
\* differ, and every index lies in 1..coeffsCount-1 (1..65341 in the source).
C1_IndexInjective ==
  ixs # <<0, 0>> =>
    /\ pairs[1] # pairs[2] => ixs[1] # ixs[2]
    /\ ixs[1] = idx(pairs[1][1], pairs[1][2])
    /\ ixs[1] \in 1..(coeffsCount - 1)

\* The formula has been applied to the largest and to the smallest pair.
C1_Witness ==
  /\ ixs # <<0, 0>>
  /\ pairs = <<<<maxDeg, maxDeg>>, <<1, 1>>>>

\* C2: every call that has returned returned the result first returned for its
\* arguments: calls with equal (lat, lon) return equal results, whatever
\* queries ran before.
C2_Deterministic ==
  \A t \in Threads :
    fr[t].pc = "done" =>
      /\ In(fr[t]) \in DOMAIN hist
      /\ hist[In(fr[t])] = fr[t].result

\* A second call with the arguments of the first has returned.
C2_Witness ==
  /\ fr[1].pc = "done"
  /\ fr[1].calls = 2
  /\ DOMAIN hist = {In(fr[1])}

\* C3: a query at latitude +90 or -90 stops in the metrics step: it never
\* enters the Legendre routine, the scatter loop, the trigonometric series or
\* the synthesizer, and never returns a number.
C3_PoleShortCircuits ==
  \A t \in Threads :
    (fr[t].pc # "idle" /\ fr[t].lat \in {-90, 90}) => fr[t].pc \in {"metrics", "forj"}

\* C4: once constructed, drts[n] and dirt[n] are populated for exactly n in
\* 1..2*maxDeg+1 (1..721 in the source); no query runs before; and every index
\* a step of the Legendre routine reads drts or dirt at lies in 1..2*maxDeg+1
\* (so none is 0, none is negative, that is wrapped, none is above).
C4_TableIndices ==
  /\ constructed =>
       /\ DOMAIN drts = 1..((2 * maxDeg) + 1)
       /\ DOMAIN dirt = 1..((2 * maxDeg) + 1)
       /\ \A n \in 1..((2 * maxDeg) + 1) : drts[n] = Sqrt(n) /\ dirt[n] = InvSqrt(n)
  /\ \A t \in Threads :
       /\ fr[t].pc # "idle" => constructed
       /\ \A r \in fr[t].g.trd :
            /\ r.ix \in 1..((2 * maxDeg) + 1)
            /\ r.ix \in DOMAIN (IF r.tab = "drts" THEN drts ELSE dirt)

\* One recurrence step has read the lowest index, 1, and the highest, 2*maxDeg+1.
C4_Witness ==
  \E t \in Threads :
    /\ fr[t].g.rec # <<>>
    /\ TR("drts", 1) \in fr[t].g.trd
    /\ TR("drts", (2 * maxDeg) + 1) \in fr[t].g.trd

\* C5: after construction no step changes drts or dirt.
C5_TablesFrozen == [][constructed => (drts' = drts /\ dirt' = dirt)]_vars

\* The last of the caller's queries has returned on a constructed instance.
C5_Witness ==
  /\ constructed
  /\ fr[1].pc = "done"
  /\ fr[1].calls = MaxCalls

\* C6: under every interleaving, the automatic arrays of a query (p, sinml,
\* cosml, rleg, rlnn) hold only values that query computed from its own
\* arguments, and a query that has returned returned what the same query
\* returns when it runs alone.
C6_Isolated ==
  \A t \in Threads :
    /\ \A arr \in {"p", "sinml", "cosml", "rleg", "rlnn"} :
         \A c \in DOMAIN buf[BufOf(t)][arr] :
           buf[BufOf(t)][arr][c].in \in {NoIn, In(fr[t])}
    /\ fr[t].pc = "done" => fr[t].result = Alone(In(fr[t]))

\* Two queries with different arguments have both returned, the second having
\* been called while the first was running.
C6_Witness ==
  /\ fr[1].pc = "done"
  /\ fr[2].pc = "done"
  /\ fr[2].conc
  /\ fr[1].lat # fr[2].lat

\* C7 as stated: every write of the scatter loop is at idx(n, m) with
\* 1 <= m <= n <= maxDeg, n and m being the loop's i and j - 1.
C7_ScatterPairAsStated ==
  \A t \in Threads :
    \A x \in DOMAIN fr[t].g.wr :
      LET w == fr[t].g.wr[x]
      IN /\ w.ix = idx(w.n, w.m)
         /\ 1 <= w.m /\ w.m <= w.n /\ w.n <= maxDeg

\* C7 amended: every write of the scatter loop is at idx(n, m) with
\* 0 <= m < n <= maxDeg + 1, n and m being the loop's i and j - 1; the cell
\* written is cell idx(n, m) of p.
C7_ScatterPair ==
  \A t \in Threads :
    \A x \in DOMAIN fr[t].g.wr :
      LET w == fr[t].g.wr[x]
      IN /\ w.ix = idx(w.n, w.m)
         /\ 0 <= w.m /\ w.m < w.n /\ w.n <= maxDeg + 1
         /\ w.ix \in DOMAIN buf[BufOf(t)].p
         /\ buf[BufOf(t)].pBy[w.ix] = <<w.n, w.m>>

\* The scatter loop has written for i = maxDeg + 1 and m = maxDeg.
C7_Witness ==
  \E t \in Threads :
    /\ fr[t].g.wr # <<>>
    /\ fr[t].g.wr[1].n = maxDeg + 1
    /\ fr[t].g.wr[1].m = maxDeg

\* C8: each read the synthesizer's loops make of p and of the coefficient table
\* is for a degree n in 2..maxDeg and an order m in 0..n, at k = idx(n + 1, m),
\* the cell the scatter loop wrote for i = n + 1 and order m, holding the
\* Legendre value of degree n and order m; k is one more than at the read
\* before, starting at 4; k stays below coeffsCount and ends at coeffsCount - 1.
C8_SynthesizerIndex ==
  \A t \in Threads :
    /\ \A x \in DOMAIN fr[t].g.prd :
         LET r == fr[t].g.prd[x]
             b == buf[BufOf(t)]
         IN /\ r.n \in 2..maxDeg /\ r.m \in 0..r.n
            /\ r.k = idx(r.n + 1, r.m)
            /\ r.k = r.prev + 1
            /\ r.k \in 4..(coeffsCount - 1)
            /\ r.k \in DOMAIN b.p
            /\ b.pBy[r.k] = <<r.n + 1, r.m>>
            /\ b.p[r.k] = Pnm(In(fr[t]), r.n, r.m)
    /\ fr[t].pc \in {"syn_n", "syn_m", "syn_tail"} =>
         /\ fr[t].k >= 3
         /\ fr[t].k < coeffsCount
    /\ fr[t].pc = "syn_tail" => fr[t].k = coeffsCount - 1

\* The synthesizer has read the last cell, for degree maxDeg and order maxDeg.
C8_Witness ==
  \E t \in Threads :
    /\ fr[t].g.prd # <<>>
    /\ fr[t].g.prd[1].k = coeffsCount - 1
    /\ fr[t].g.prd[1].n = maxDeg
    /\ fr[t].g.prd[1].m = maxDeg

\* C9 as stated: for some order of a query the recurrence loop reaches an
\* iteration in which the skip guard fires; a query runs every order, so when
\* it has returned the guard has fired at least once.
C9_GuardFiresAsStated ==
  \A t \in Threads : fr[t].pc = "done" => fr[t].skips > 0

\* C9 amended: the skip guard never fires: every iteration the recurrence loop
\* reaches has n >= m + 2, where the guard is false, and every table index of
\* an evaluated recurrence is at least 1.
C9_GuardNeverFires ==
  \A t \in Threads :
    /\ ~fr[t].g.skip
    /\ fr[t].skips = 0
    /\ (fr[t].pc = "leg_rec" /\ fr[t].n1 <= maxDeg + 1) =>
         /\ fr[t].n1 - 1 >= fr[t].m + 2
         /\ ~((fr[t].m = 0 /\ fr[t].n1 - 1 < 2) \/ (fr[t].m = 1 /\ fr[t].n1 - 1 < 3))
    /\ fr[t].g.rec # <<>> => \A r \in fr[t].g.trd : r.ix >= 1

\* The recurrence has been evaluated for order 1 and degree 3, the first
\* degree the guard's second clause lets through.
C9_Witness ==
  \E t \in Threads :
    /\ fr[t].m = 1
    /\ fr[t].g.rec = <<3>>

\* C10: every cell of rlnn, rleg, p, sinml and cosml that a step reads was
\* written earlier in the same query, a cell of rleg by the Legendre call of
\* the order being processed.
C10_ReadAfterWrite ==
  \A t \in Threads : \A r \in fr[t].g.lrd : r.wr

\* The scatter loop has read rleg[maxDeg + 1] for the last order, and it had
\* been written by the Legendre call of that order.
C10_Witness ==
  \E t \in Threads :
    /\ fr[t].m = maxDeg
    /\ fr[t].g.wr # <<>>
    /\ [arr |-> "rleg", ix |-> maxDeg + 1, wr |-> TRUE] \in fr[t].g.lrd

====
